---- MODULE Spec2Model ----
(***************************************************************************)
(* A model of the pixellab-mcp server's response shaping (src/utils.ts),   *)
(* of the retryWithBackoff helper (three definitions: tests/utils.ts has   *)
(* two, unnamed/part_005 a third), of the eight tool handlers and of the   *)
(* server's startup (src/index.ts, unnamed/part_007).                      *)
(*                                                                         *)
(* Text is a sequence of fragments (strings that are never split), so      *)
(* concatenation is \o, "starts with p" is "the first fragment is p" and   *)
(* "includes s" is "some fragment is s".                                   *)
(***************************************************************************)
EXTENDS Integers, Sequences, FiniteSets, TLC

VARIABLES scenario, u, rc, h, calls

vars == <<scenario, u, rc, h, calls>>

(***************************************************************************)
(* Bounds of the model.                                                    *)
(***************************************************************************)
MaxMsgLen == 1
MaxRetriesBound == 2
MaxFrames == 2
MaxConcurrentRetries == 1
MaxArgs == 2

(***************************************************************************)
(* JavaScript values that can be thrown / used as a rejection reason.      *)
(***************************************************************************)
RateLimitMarker == "wait longer between generations"
RateLimitWords == "rate limit"

Frags == {RateLimitMarker, RateLimitWords, "timeout"}

RECURSIVE SeqsUpTo(_, _)
SeqsUpTo(S, n) ==
  IF n = 0 THEN {<<>>}
  ELSE LET shorter == SeqsUpTo(S, n - 1)
       IN shorter \cup {Append(s, x) : s \in {t \in shorter : Len(t) = n - 1}, x \in S}

Msgs == SeqsUpTo(Frags, MaxMsgLen)

\* instances of Error (RateLimitError is the client library's Error subclass)
ErrorVals == [kind : {"Error", "RateLimitError"}, message : Msgs]

StringVals == [kind : {"string"}, value : Msgs]

PropVals == [t : {"str"}, s : Msgs] \cup {[t |-> "num", n |-> 42]}

Props == [key : {"message", "unknown"}, val : PropVals]

\* plain objects: own properties in insertion order; cyclic = the object
\* also holds a reference to itself
ObjectVals == [kind : {"object"}, props : SeqsUpTo(Props, 1), cyclic : BOOLEAN]

Null == [kind |-> "null"]

Undefined == [kind |-> "undefined"]

PrimVals == {Null, Undefined, [kind |-> "number", n |-> 42], [kind |-> "boolean", b |-> FALSE]}

Thrown == ErrorVals \cup StringVals \cup ObjectVals \cup PrimVals

\* the TypeError the JavaScript runtime raises itself (property read on
\* null/undefined, call of a non-function, JSON.stringify of a cycle)
TypeError(why) == [kind |-> "TypeError", message |-> <<why>>]

\* completion of a call: a returned value or a thrown one
Return(v) == [kind |-> "return", value |-> v]

Throw(e) == [kind |-> "throw", error |-> e]

instanceofError(e) == e.kind \in {"Error", "RateLimitError", "TypeError"}

instanceofRateLimitError(e) == e.kind = "RateLimitError"

typeof(e) ==
  CASE e.kind \in {"Error", "RateLimitError", "TypeError", "object", "null"} -> "object"
    [] e.kind = "string" -> "string"
    [] e.kind = "number" -> "number"
    [] e.kind = "boolean" -> "boolean"
    [] e.kind = "undefined" -> "undefined"

\* String(v) for the primitives that reach the last branch of toMcpError
String(e) ==
  CASE e.kind = "null" -> <<"null">>
    [] e.kind = "undefined" -> <<"undefined">>
    [] e.kind = "number" -> <<"42">>
    [] e.kind = "boolean" -> <<"false">>

includes(text, s) == \E i \in DOMAIN text : text[i] = s

Quote(s) == <<"\"">> \o s \o <<"\"">>

RenderPropVal(v) == IF v.t = "str" THEN Quote(v.s) ELSE <<"42">>

RECURSIVE RenderProps(_)
RenderProps(ps) ==
  IF ps = <<>> THEN <<>>
  ELSE <<"\n  ">> \o Quote(<<Head(ps).key>>) \o <<": ">> \o RenderPropVal(Head(ps).val)
       \o (IF Tail(ps) = <<>> THEN <<>> ELSE <<",">>) \o RenderProps(Tail(ps))

\* JSON.stringify(o, null, 2) of a plain object (throws on a cycle), of
\* null and of a primitive
JSONstringify(o) ==
  CASE o.kind = "object" ->
         IF o.cyclic THEN Throw(TypeError("Converting circular structure to JSON"))
         ELSE IF o.props = <<>> THEN Return(<<"{}">>)
         ELSE Return(<<"{">> \o RenderProps(o.props) \o <<"\n", "}">>)
    [] o.kind = "null" -> Return(<<"null">>)
    [] o.kind = "number" -> Return(<<ToString(o.n)>>)
    [] o.kind = "boolean" -> Return(<<IF o.b THEN "true" ELSE "false">>)
    [] o.kind = "string" -> Return(Quote(o.value))

(***************************************************************************)
(* src/utils.ts                                                            *)
(***************************************************************************)
TextItem(t) == [type |-> "text", text |-> t]

ImageItem(d) == [type |-> "image", data |-> d, mimeType |-> "image/png"]

\* a response without the isError flag
ErrorResponseNoFlag(errorMessage) ==
  [content |-> <<TextItem(<<"Error: ">> \o errorMessage)>>]

\* lines 50-58: the response toMcpError returns
ErrorResponse(errorMessage) ==
  [content |-> <<TextItem(<<"Error: ">> \o errorMessage)>>, isError |-> TRUE]

\* errorMessage without the try/catch around JSON.stringify
errorMessageNoCatch(error) ==
  IF instanceofError(error) THEN Return(error.message)
  ELSE IF typeof(error) = "string" THEN Return(error.value)
  ELSE IF typeof(error) = "object" /\ error # Null THEN JSONstringify(error)
  ELSE Return(<<"Unknown error: ">> \o String(error))

\* errorMessage without the instanceof Error branch: an Error falls to the
\* object branch, and JSON.stringify of an Error is "{}"
errorMessageNoInstanceof(error) ==
  IF typeof(error) = "string" THEN Return(error.value)
  ELSE IF typeof(error) = "object" /\ error # Null
    THEN IF instanceofError(error) THEN Return(<<"{}">>)
         ELSE LET j == JSONstringify(error)
              IN IF j.kind = "throw"
                 THEN Return(<<"Object error: ", "[object Object]">>)
                 ELSE j
  ELSE Return(<<"Unknown error: ">> \o String(error))

\* errorMessage without the `error !== null` test: null takes the object
\* branch, and JSON.stringify(null) is "null"
errorMessageNullAsObject(error) ==
  IF instanceofError(error) THEN Return(error.message)
  ELSE IF typeof(error) = "string" THEN Return(error.value)
  ELSE IF typeof(error) = "object"
    THEN IF error = Null THEN Return(<<"null">>)
         ELSE LET j == JSONstringify(error)
              IN IF j.kind = "throw"
                 THEN Return(<<"Object error: ", "[object Object]">>)
                 ELSE j
  ELSE Return(<<"Unknown error: ">> \o String(error))

\* lines 32-48: the if-chain that sets errorMessage
errorMessage(error) ==
  IF instanceofError(error) THEN Return(error.message)
  ELSE IF typeof(error) = "string" THEN Return(error.value)
  ELSE IF typeof(error) = "object" /\ error # Null
    THEN LET j == JSONstringify(error)
         IN IF j.kind = "throw"
            THEN Return(<<"Object error: ", "[object Object]">>)
            ELSE j
  ELSE Return(<<"Unknown error: ">> \o String(error))

\* an exception raised while the message is computed leaves the function
toMcpError(error) ==
  LET m == errorMessage(error)
  IN IF m.kind = "throw" THEN m ELSE Return(ErrorResponse(m.value))

\* the isError flag of a response (the field is optional)
IsErrorFlag(r) == "isError" \in DOMAIN r /\ r.isError = TRUE

(***************************************************************************)
(* retryWithBackoff: tests/utils.ts (two definitions) and unnamed/part_005 *)
(***************************************************************************)
Variants == {"part_005", "utils_first", "utils_second"}

\* the value of the expression `error.message` for a thrown value: a
\* property read throws on null and undefined, gives undefined on a
\* primitive or when the object has no such property
RECURSIVE LookupProp(_, _)
LookupProp(ps, key) ==
  IF ps = <<>> THEN Undefined
  ELSE IF Head(ps).key = key
    THEN (IF Head(ps).val.t = "str"
          THEN [kind |-> "string", value |-> Head(ps).val.s]
          ELSE [kind |-> "number", n |-> Head(ps).val.n])
  ELSE LookupProp(Tail(ps), key)

GetMessage(e) ==
  CASE e.kind \in {"null", "undefined"} ->
         Throw(TypeError("Cannot read properties of null or undefined"))
    [] e.kind \in {"Error", "RateLimitError", "TypeError"} ->
         Return([kind |-> "string", value |-> e.message])
    [] e.kind = "object" -> Return(LookupProp(e.props, "message"))
    [] OTHER -> Return(Undefined)

\* part_005 lines 21-25
isRateLimitPart005(error) ==
  Return(instanceofRateLimitError(error)
         \/ (instanceofError(error)
             /\ (includes(error.message, RateLimitWords)
                 \/ includes(error.message, RateLimitMarker))))

\* tests/utils.ts lines 21-23: (error as Error).message?.includes(...)
isRateLimitUtilsFirst(error) ==
  IF instanceofRateLimitError(error) THEN Return(TRUE)
  ELSE LET m == GetMessage(error)
       IN IF m.kind = "throw" THEN m
          ELSE IF m.value.kind \in {"undefined", "null"} THEN Return(FALSE)
          ELSE IF m.value.kind = "string"
            THEN Return(includes(m.value.value, RateLimitMarker))
          ELSE Throw(TypeError("message.includes is not a function"))

\* tests/utils.ts line 62
isRateLimitUtilsSecond(error) == Return(instanceofRateLimitError(error))

isRateLimit(variant, error) ==
  CASE variant = "part_005" -> isRateLimitPart005(error)
    [] variant = "utils_first" -> isRateLimitUtilsFirst(error)
    [] variant = "utils_second" -> isRateLimitUtilsSecond(error)

RECURSIVE Pow(_, _)
Pow(b, n) == IF n = 0 THEN 1 ELSE b * Pow(b, n - 1)

\* baseDelay * Math.pow(g, attempt) as the fraction num/den (g = 2 or 3/2)
backoffDelay(variant, baseDelay, attempt) ==
  IF variant = "utils_first"
  THEN [num |-> baseDelay * Pow(3, attempt), den |-> Pow(2, attempt)]
  ELSE [num |-> baseDelay * Pow(2, attempt), den |-> 1]

BaseDelays == {0, 1000}

SuccessValues == {"v1", "v2"}

Pending == [kind |-> "pending"]

NoRejection == [kind |-> "none"]

\* The classes of failure the properties speak of (spec 4.1): Retryable is
\* a RateLimitError or an Error whose message holds the marker; Terminal is
\* a failure that signals a rate limit in no way.
Retryable(e) ==
  instanceofRateLimitError(e)
  \/ (instanceofError(e) /\ includes(e.message, RateLimitMarker))

SignalsRateLimit(text) == includes(text, RateLimitMarker) \/ includes(text, RateLimitWords)

Terminal(e) ==
  /\ ~instanceofRateLimitError(e)
  /\ instanceofError(e) => ~SignalsRateLimit(e.message)
  /\ e.kind = "string" => ~SignalsRateLimit(e.value)
  /\ e.kind = "object" =>
       LET m == LookupProp(e.props, "message")
       IN m.kind = "string" => ~SignalsRateLimit(m.value)

\* the state of one call retryWithBackoff(fn, maxRetries, baseDelay) on entry
retryEnter(variant, maxRetries, baseDelay) ==
  [pc |-> "loop", variant |-> variant, maxRetries |-> maxRetries,
   baseDelay |-> baseDelay, attempt |-> 0, lastError |-> Undefined,
   invocations |-> 0, waits |-> <<>>, outcome |-> Pending,
   \* what fn did so far, kept for the properties
   lastRejection |-> NoRejection, lastResolution |-> "none",
   rejected |-> 0, allRetryable |-> TRUE, rejectedAt |-> -1]

\* `attempt <= maxRetries` is false: line 42, throw lastError
retryLoopExit(c) == [c EXCEPT !.pc = "done", !.outcome = Throw(c.lastError)]

\* fn() resolves with v: line 16 returns it
retryResolved(c, v) ==
  [c EXCEPT !.pc = "done", !.invocations = @ + 1, !.outcome = Return(v)]

\* the catch block with `attempt <= maxRetries` in place of `<`: it also
\* waits after the last attempt
retryRejectedWaitsOnLast(c, e) ==
  LET seen == [c EXCEPT !.invocations = @ + 1, !.lastError = e]
      rl == isRateLimit(c.variant, e)
  IN IF rl.kind = "throw"
     THEN [seen EXCEPT !.pc = "done", !.outcome = rl]
     ELSE IF rl.value /\ c.attempt <= c.maxRetries
       THEN [seen EXCEPT !.pc = "sleep",
                         !.waits = Append(@, backoffDelay(c.variant, c.baseDelay, c.attempt))]
       ELSE [seen EXCEPT !.pc = "done", !.outcome = Throw(e)]

\* fn() rejects with e: the catch block, lines 17-39
retryRejected(c, e) ==
  LET seen == [c EXCEPT !.invocations = @ + 1, !.lastError = e]
      rl == isRateLimit(c.variant, e)
  IN IF rl.kind = "throw"
     THEN [seen EXCEPT !.pc = "done", !.outcome = rl]
     ELSE IF rl.value /\ c.attempt < c.maxRetries
       THEN [seen EXCEPT !.pc = "sleep",
                         !.waits = Append(@, backoffDelay(c.variant, c.baseDelay, c.attempt))]
       ELSE [seen EXCEPT !.pc = "done", !.outcome = Throw(e)]

\* bookkeeping of what fn did, for the properties
noteResolution(c, v) == [c EXCEPT !.lastResolution = v]

noteRejection(c, e) ==
  [c EXCEPT !.lastRejection = e, !.rejected = @ + 1,
            !.allRetryable = @ /\ Retryable(e), !.rejectedAt = c.attempt]

\* the sleep ends: continue, attempt++
retryWake(c) == [c EXCEPT !.pc = "loop", !.attempt = @ + 1]

(***************************************************************************)
(* src/utils.ts: success responses                                         *)
(***************************************************************************)
\* JavaScript truthiness of a value
Truthy(v) ==
  CASE v.kind \in {"undefined", "null"} -> FALSE
    [] v.kind = "number" -> v.n # 0
    [] v.kind = "boolean" -> v.b
    [] v.kind = "string" -> v.value # <<>>
    [] OTHER -> TRUE

\* the trailing metadata item, pushed when `metadata` is truthy
pushMetadata(content, metadata) ==
  IF Truthy(metadata)
  THEN LET j == JSONstringify(metadata)
       IN IF j.kind = "throw" THEN j ELSE Return(Append(content, TextItem(j.value)))
  ELSE Return(content)

\* image.dataUrl: the getter of a Base64Image; reading it off undefined
\* (an argument that was not passed) raises a TypeError
dataUrl(image) ==
  IF image = Undefined
  THEN Throw(TypeError("Cannot read properties of undefined (reading 'dataUrl')"))
  ELSE Return([of |-> image, as |-> "dataUrl"])

toMcpResponse(description, image, metadata) ==
  LET d == dataUrl(image)
  IN IF d.kind = "throw" THEN d
     ELSE LET c == pushMetadata(<<TextItem(description), ImageItem(d.value)>>, metadata)
          IN IF c.kind = "throw" THEN c ELSE Return([content |-> c.value])

\* toMcpComparison with the two images in each other's place
toMcpComparisonSwapped(description, beforeImage, afterImage, metadata) ==
  LET b == dataUrl(beforeImage)
      a == dataUrl(afterImage)
  IN IF b.kind = "throw" THEN b
     ELSE IF a.kind = "throw" THEN a
     ELSE LET c == pushMetadata(<<TextItem(description),
                                  TextItem(<<"Before:">>),
                                  ImageItem(a.value),
                                  TextItem(<<"After:">>),
                                  ImageItem(b.value)>>, metadata)
          IN IF c.kind = "throw" THEN c ELSE Return([content |-> c.value])

toMcpComparison(description, beforeImage, afterImage, metadata) ==
  LET b == dataUrl(beforeImage)
      a == dataUrl(afterImage)
  IN IF b.kind = "throw" THEN b
     ELSE IF a.kind = "throw" THEN a
     ELSE LET c == pushMetadata(<<TextItem(description),
                                  TextItem(<<"Before:">>),
                                  ImageItem(b.value),
                                  TextItem(<<"After:">>),
                                  ImageItem(a.value)>>, metadata)
          IN IF c.kind = "throw" THEN c ELSE Return([content |-> c.value])

(***************************************************************************)
(* The tool handlers: src/tools/*.ts and unnamed/part_009                  *)
(***************************************************************************)
SingleImageTools ==
  {"generatePixelArt", "generatePixelArtWithStyle", "rotateCharacter", "inpaintPixelArt"}

AnimationTools == {"animateWithSkeleton", "animateWithText"}

Tools == SingleImageTools \cup AnimationTools \cup {"getBalance", "estimateSkeleton"}

\* the method of the API client each handler calls
clientMethod(tool) ==
  CASE tool = "generatePixelArt" -> "generateImagePixflux"
    [] tool = "generatePixelArtWithStyle" -> "generateImageBitforge"
    [] tool = "rotateCharacter" -> "rotate"
    [] tool = "inpaintPixelArt" -> "inpaint"
    [] OTHER -> tool

\* save_to_file: a path is a sequence of names, "." and "/"; the empty
\* sequence stands for an absent (or empty) argument, which is falsy
NoPath == <<>>

Paths == {<<"out", ".", "png">>, <<"out">>, <<"dir", ".", "v2", "/", "out">>}

\* the arguments a handler reads, after the schema's defaults
ArgsOf(tool) ==
  [show_image : IF tool = "getBalance" THEN {FALSE} ELSE BOOLEAN,
   save_to_file : IF tool \in {"getBalance", "estimateSkeleton"} THEN {NoPath}
                  ELSE {NoPath} \cup Paths,
   from_direction : IF tool = "rotateCharacter" THEN {"", "south"} ELSE {""},
   to_direction : IF tool = "rotateCharacter" THEN {"east"} ELSE {""},
   reference_image_path : IF tool = "animateWithSkeleton" THEN BOOLEAN
                          ELSE {tool = "animateWithText"}]

ArgDescription == "cute dragon"

ArgSize == "64"

Usd == "0.01"

NoImage == [id |-> <<"none", 0>>, format |-> "none"]

\* an image read by Base64Image.fromFile from a path the caller gave
LoadedImages == [id : {<<"file", 0>>}, format : {"png", "jpeg"}]

\* images the API returns
RemoteImage(n) == [id |-> <<"remote", n>>, format |-> "png"]

RECURSIVE RemoteFrames(_)
RemoteFrames(n) == IF n = 0 THEN <<>> ELSE Append(RemoteFrames(n - 1), RemoteImage(n - 1))

NoResult == [kind |-> "none"]

\* what the client method of a tool resolves with
RemoteResults(tool) ==
  CASE tool \in SingleImageTools -> {[image |-> RemoteImage(0), usd |-> Usd]}
    [] tool \in AnimationTools -> {[images |-> RemoteFrames(n), usd |-> Usd] : n \in 0..MaxFrames}
    [] tool = "estimateSkeleton" -> {[keypoints |-> 18, usd |-> Usd]}
    [] tool = "getBalance" -> {[usd |-> Usd]}

NoFailure == [step |-> "none"]

firstStep(tool) ==
  CASE tool \in AnimationTools -> "parse"
    [] tool \in {"generatePixelArt", "getBalance"} -> "remote"
    [] OTHER -> "load"

handlerEnter(tool, args) ==
  [pc |-> firstStep(tool), tool |-> tool, args |-> args,
   original |-> NoImage, mask |-> NoImage, result |-> NoResult, i |-> 0,
   outcome |-> Pending,
   \* the effects on the collaborators and the failure met, for the properties
   remoteCalls |-> <<>>, files |-> <<>>, failure |-> NoFailure]

\* save_to_file.replace(/(\.[^.]+)?$/, ...): where the match starts. The
\* group matches from a "." that is followed, up to the end, by one or more
\* characters none of which is a "."; failing that the match is empty, at
\* the end.
matchStart(path) ==
  LET dots == {p \in 1..(Len(path) - 1) :
                 path[p] = "." /\ \A q \in (p + 1)..Len(path) : path[q] # "."}
  IN IF dots = {} THEN Len(path) + 1 ELSE CHOOSE p \in dots : \A q \in dots : p <= q

replaceBeforeExtension(path, marker) ==
  LET p == matchStart(path)
  IN SubSeq(path, 1, p - 1) \o marker \o SubSeq(path, p, Len(path))

frameFileName(path, i) == replaceBeforeExtension(path, <<"_frame", ToString(i)>>)

filesSavedPattern(path, n) ==
  replaceBeforeExtension(path, <<"_frame{0-", ToString(n - 1), "}">>)

\* the metadata object of a handler (filePath is left out of the JSON when
\* save_to_file is undefined)
metadataOf(c) ==
  [kind |-> "object", cyclic |-> FALSE,
   props |-> <<[key |-> "parameters", val |-> [t |-> "str", s |-> <<c.tool>>]]>>
             \o (IF c.args.save_to_file = NoPath THEN <<>>
                 ELSE <<[key |-> "filePath", val |-> [t |-> "str", s |-> c.args.save_to_file]]>>)
             \o <<[key |-> "usage", val |-> [t |-> "str", s |-> <<c.result.usd>>]]>>]

descriptionOf(c) ==
  CASE c.tool = "generatePixelArt" ->
         <<"Generated pixel art: ", ArgDescription, " (", ArgSize, "×", ArgSize, " pixels)">>
    [] c.tool = "generatePixelArtWithStyle" ->
         <<"Generated pixel art with style: ", ArgDescription, " (", ArgSize, "×", ArgSize,
           " pixels, style strength: ", "50", "%)">>
    [] c.tool = "rotateCharacter" ->
         <<"Rotated character from ",
           IF c.args.from_direction = "" THEN "current view" ELSE c.args.from_direction,
           " to ", c.args.to_direction>>
    [] c.tool = "inpaintPixelArt" -> <<"Inpainted pixel art: ", ArgDescription>>
    [] c.tool = "estimateSkeleton" ->
         <<"Estimated skeleton with ", ToString(c.result.keypoints), " keypoints detected">>

textOnly(c) ==
  Return([content |-> <<TextItem(descriptionOf(c)),
                        TextItem(<<"Cost: $", c.result.usd, " USD">>),
                        TextItem(JSONstringify(metadataOf(c)).value)>>])

animationSummary(c) ==
  LET n == Len(c.result.images)
      head == <<"Animated pixel art sequence with ", ToString(n), " frames ">>
              \o (IF c.tool = "animateWithSkeleton"
                  THEN <<"using skeleton keypoints. Cost: $">>
                  ELSE <<"from text description: \"", ArgDescription,
                         "\" with action: \"", "walk", "\". Cost: $">>)
              \o <<c.result.usd, "00">>
  IN IF c.args.save_to_file # NoPath
     THEN head \o <<". Files saved: ">> \o filesSavedPattern(c.args.save_to_file, n)
     ELSE head

RECURSIVE frameItems(_)
frameItems(images) ==
  IF images = <<>> THEN <<>>
  ELSE <<ImageItem([of |-> Head(images), as |-> "base64"])>> \o frameItems(Tail(images))

\* an animation handler that returns an empty content list for zero frames
animationResponseEmptyOnNoFrames(c) ==
  IF Len(c.result.images) > 0
  THEN Return([content |-> <<TextItem(animationSummary(c))>>
                           \o (IF c.args.show_image THEN frameItems(c.result.images) ELSE <<>>)])
  ELSE Return([content |-> <<>>])

\* an animation handler that shows the frames whatever show_image is
animationResponseAlwaysShows(c) ==
  IF Len(c.result.images) > 0
  THEN Return([content |-> <<TextItem(animationSummary(c))>> \o frameItems(c.result.images)])
  ELSE Return([content |-> <<TextItem(<<"No animated frames were generated.">>)>>])

\* an animation handler without the test for zero frames
animationResponseSummaryOnNoFrames(c) ==
  Return([content |-> <<TextItem(animationSummary(c))>>
                      \o (IF c.args.show_image THEN frameItems(c.result.images) ELSE <<>>)])

animationResponse(c) ==
  IF Len(c.result.images) > 0
  THEN Return([content |-> <<TextItem(animationSummary(c))>>
                           \o (IF c.args.show_image THEN frameItems(c.result.images) ELSE <<>>)])
  ELSE Return([content |-> <<TextItem(<<"No animated frames were generated.">>)>>])

\* the response a handler builds once its awaited steps have succeeded
buildResponse(c) ==
  CASE c.tool \in {"generatePixelArt", "generatePixelArtWithStyle"} ->
         IF c.args.show_image
         THEN toMcpResponse(descriptionOf(c), c.result.image, metadataOf(c))
         ELSE textOnly(c)
    [] c.tool \in {"rotateCharacter", "inpaintPixelArt"} ->
         IF c.args.show_image
         THEN toMcpComparison(descriptionOf(c), c.original, c.result.image, metadataOf(c))
         ELSE textOnly(c)
    [] c.tool = "estimateSkeleton" ->
         IF c.args.show_image
         THEN toMcpResponse(descriptionOf(c), c.original, metadataOf(c))
         ELSE textOnly(c)
    [] c.tool = "getBalance" ->
         Return([content |-> <<TextItem(<<"PixelLab Balance: $", c.result.usd,
                                          " USD\nAccount status: Active">>)>>])
    [] c.tool \in AnimationTools -> animationResponse(c)

\* a handler whose catch block does not cover the file save
handlerCatchNotSave(c, error) ==
  [c EXCEPT !.pc = "done",
            !.outcome = IF c.pc = "save" THEN Throw(error) ELSE toMcpError(error)]

\* a handler that issues the remote call again after a Retryable failure
handlerCatchRetrying(c, error) ==
  IF c.pc = "remote" /\ Retryable(error) /\ Len(c.remoteCalls) <= MaxRetriesBound
  THEN c
  ELSE [c EXCEPT !.pc = "done", !.outcome = toMcpError(error)]

\* a handler that ignores a failed save and answers as after a success
handlerCatchIgnoresSave(c, error) ==
  [c EXCEPT !.pc = "done",
            !.outcome = IF c.pc = "save" THEN buildResponse(c) ELSE toMcpError(error)]

\* a handler without its try/catch: the failure of a step leaves it
handlerCatchRethrows(c, error) == [c EXCEPT !.pc = "done", !.outcome = Throw(error)]

\* a handler that removes the files it wrote when a step fails
handlerCatchRollsBack(c, error) ==
  [c EXCEPT !.pc = "done", !.outcome = toMcpError(error), !.files = <<>>]

\* the catch block of a handler: return toMcpError(error)
handlerCatch(c, error) == [c EXCEPT !.pc = "done", !.outcome = toMcpError(error)]

\* the end of the try block: build the response and return it
handlerRespond(c) ==
  LET r == buildResponse(c)
  IN IF r.kind = "throw" THEN handlerCatch(c, r.error)
     ELSE [c EXCEPT !.pc = "done", !.outcome = r]

\* Schema.parse(args) succeeded (animation handlers)
handlerParsed(c) ==
  [c EXCEPT !.pc = IF c.args.reference_image_path THEN "load" ELSE "remote"]

\* Base64Image.fromFile resolved with img
handlerLoaded(c, img) ==
  IF c.pc = "load"
  THEN [c EXCEPT !.original = img,
                 !.pc = IF c.tool = "inpaintPixelArt" THEN "load2" ELSE "remote"]
  ELSE [c EXCEPT !.mask = img, !.pc = "remote"]

\* whether a file save follows the remote call
savesAfter(c, res) ==
  /\ c.args.save_to_file # NoPath
  /\ c.tool \in AnimationTools => Len(res.images) > 0

\* a handler that starts the save without awaiting it: it responds at once
handlerRemoteResolvedNoAwait(c, res) == handlerRespond([c EXCEPT !.result = res])

\* a handler that issues its remote call again after it received the
\* result, twice over
handlerRemoteResolvedRefetches(c, res) ==
  LET got == [c EXCEPT !.result = res]
  IN IF Len(c.remoteCalls) < 3 THEN got
     ELSE IF savesAfter(c, res) THEN [got EXCEPT !.pc = "save"] ELSE handlerRespond(got)

\* the client method resolved with res
handlerRemoteResolved(c, res) ==
  LET got == [c EXCEPT !.result = res]
  IN IF savesAfter(c, res) THEN [got EXCEPT !.pc = "save"] ELSE handlerRespond(got)

\* saveToFile resolved: the image (or frame i) is on disk
handlerSaved(c) ==
  IF c.tool \in AnimationTools
  THEN LET wrote == [c EXCEPT !.files = Append(@, [path |-> frameFileName(c.args.save_to_file, c.i),
                                                   image |-> c.result.images[c.i + 1]]),
                              !.i = @ + 1]
       IN IF c.i + 1 < Len(c.result.images) THEN wrote ELSE handlerRespond(wrote)
  ELSE handlerRespond([c EXCEPT !.files = Append(@, [path |-> c.args.save_to_file,
                                                     image |-> c.result.image])])

\* bookkeeping for the properties
noteRemoteCall(c) == [c EXCEPT !.remoteCalls = Append(@, clientMethod(c.tool))]

noteFailure(c, e) == [c EXCEPT !.failure = [step |-> c.pc, error |-> e]]

(***************************************************************************)
(* Startup: src/index.ts (unnamed/part_008 is the same code) and the       *)
(* server of unnamed/part_007.  A string is a text, a sequence of          *)
(* fragments; "=" is a fragment of its own.                                *)
(***************************************************************************)
StartupVariants == {"index", "part_007"}

DefaultBaseUrl == <<"https://api.pixellab.ai/v1">>

\* what follows "--secret=" or "--base-url=" on the command line
ArgValues == {<<"cli">>, <<"cli", "=", "pad">>}

Args == [flag : {"--secret", "--base-url"}, value : ArgValues] \cup {[flag |-> "--help"]}

\* process.env.X: undefined or a string
EnvValues == {Undefined, [kind |-> "string", value |-> <<"env">>]}

Str(text) == [kind |-> "string", value |-> text]

\* arg.split("=")[1] for arg = flag + "=" + value: the value up to its
\* first "="
RECURSIVE splitAtEquals1(_)
splitAtEquals1(value) ==
  IF value = <<>> \/ Head(value) = "=" THEN <<>>
  ELSE <<Head(value)>> \o splitAtEquals1(Tail(value))

Exit(code) == [kind |-> "exit", code |-> code]

\* new PixelLabClient(secret, baseUrl)
Client(secret, baseUrl) == [kind |-> "client", secret |-> secret, baseUrl |-> baseUrl]

\* index.ts lines 24-46: the loop over the arguments; --help leaves the
\* process at once
RECURSIVE parseArgsIndex(_, _, _)
parseArgsIndex(args, secret, baseUrl) ==
  IF args = <<>> THEN [kind |-> "parsed", secret |-> secret, baseUrl |-> baseUrl]
  ELSE LET arg == Head(args)
       IN IF arg.flag = "--secret"
          THEN parseArgsIndex(Tail(args), Str(splitAtEquals1(arg.value)), baseUrl)
          ELSE IF arg.flag = "--base-url"
          THEN parseArgsIndex(Tail(args), secret, Str(splitAtEquals1(arg.value)))
          ELSE Exit(0)

\* index.ts lines 20-56
startupIndex(args, env) ==
  LET p == parseArgsIndex(args, env.PIXELLAB_SECRET, Str(DefaultBaseUrl))
  IN IF p.kind = "exit" THEN p
     ELSE IF ~Truthy(p.secret) THEN Exit(1)
     ELSE Client(p.secret, p.baseUrl)

\* part_007 lines 311-318: the loop over the arguments
RECURSIVE parseArgsPart007(_, _, _)
parseArgsPart007(args, pixellabSecret, baseUrl) ==
  IF args = <<>> THEN [kind |-> "parsed", secret |-> pixellabSecret, baseUrl |-> baseUrl]
  ELSE LET arg == Head(args)
       IN IF arg.flag = "--secret"
          THEN parseArgsPart007(Tail(args), Str(splitAtEquals1(arg.value)), baseUrl)
          ELSE IF arg.flag = "--base-url"
          THEN parseArgsPart007(Tail(args), pixellabSecret, Str(splitAtEquals1(arg.value)))
          ELSE parseArgsPart007(Tail(args), pixellabSecret, baseUrl)

\* a || b
OrElse(a, b) == IF Truthy(a) THEN a ELSE b

\* part_007 lines 306-345
startupPart007(args, env) ==
  LET p == parseArgsPart007(args, Undefined, Undefined)
      secret == OrElse(p.secret, env.PIXELLAB_SECRET)
      apiBaseUrl == OrElse(OrElse(p.baseUrl, env.PIXELLAB_BASE_URL), Str(DefaultBaseUrl))
  IN IF ~Truthy(secret) THEN Exit(1) ELSE Client(secret, apiBaseUrl)

startup(variant, args, env) ==
  IF variant = "index" THEN startupIndex(args, env) ELSE startupPart007(args, env)

(***************************************************************************)
(* The specification: one scenario per behaviour.                          *)
(***************************************************************************)
Idle == [pc |-> "idle"]

\* no concurrent calls of retryWithBackoff
NoCalls == <<>>

\* arguments of the calls of toMcpResponse and toMcpComparison: Undefined
\* stands for an argument that was not passed
Summaries == {<<"Test message">>, <<"Comparison test">>}

ImageArgs == LoadedImages \cup {RemoteImage(0), Undefined}

Zero == [kind |-> "number", n |-> 0]

MetadataArgs == ObjectVals \cup StringVals \cup PrimVals \cup {Zero}

InitUtils ==
  /\ scenario = "utils"
  /\ u \in [pc : {"ready"}, fn : {"toMcpError"}, error : Thrown]
         \cup [pc : {"ready"}, fn : {"toMcpResponse"}, description : Summaries,
               image : ImageArgs, metadata : MetadataArgs]
         \cup [pc : {"ready"}, fn : {"toMcpComparison"}, description : Summaries,
               beforeImage : ImageArgs, afterImage : ImageArgs, metadata : MetadataArgs]
  /\ rc = Idle
  /\ h = Idle
  /\ calls = NoCalls

InitRetry ==
  /\ scenario = "retry"
  /\ \E v \in Variants, m \in (-1)..MaxRetriesBound, d \in BaseDelays :
       rc = retryEnter(v, m, d)
  /\ u = Idle
  /\ h = Idle
  /\ calls = NoCalls

InitHandler ==
  /\ scenario = "handler"
  /\ \E tool \in Tools : \E args \in ArgsOf(tool) : h = handlerEnter(tool, args)
  /\ u = Idle
  /\ rc = Idle
  /\ calls = NoCalls

InitStartup ==
  /\ scenario = "startup"
  /\ u \in [pc : {"ready"}, fn : {"startup"}, variant : StartupVariants,
            args : SeqsUpTo(Args, MaxArgs),
            env : [PIXELLAB_SECRET : EnvValues, PIXELLAB_BASE_URL : EnvValues]]
  /\ rc = Idle
  /\ h = Idle
  /\ calls = NoCalls

\* retryWithBackoff(async () => await handler(args, client), m, d), as the
\* tests call the handlers
InitWrapped ==
  /\ scenario = "wrapped"
  /\ \E v \in Variants : rc = retryEnter(v, MaxRetriesBound, 1000)
  /\ u = Idle
  /\ h = Idle
  /\ calls = NoCalls

Init == InitUtils \/ InitRetry \/ InitHandler \/ InitStartup \/ InitWrapped

CallToMcpError ==
  /\ u.pc = "ready"
  /\ u.fn = "toMcpError"
  /\ u' = [pc |-> "done", fn |-> u.fn, error |-> u.error, result |-> toMcpError(u.error)]
  /\ UNCHANGED <<scenario, rc, h, calls>>

CallToMcpResponse ==
  /\ u.pc = "ready"
  /\ u.fn = "toMcpResponse"
  /\ u' = [pc |-> "done", fn |-> u.fn, description |-> u.description, image |-> u.image,
           metadata |-> u.metadata,
           result |-> toMcpResponse(u.description, u.image, u.metadata)]
  /\ UNCHANGED <<scenario, rc, h, calls>>

CallToMcpComparison ==
  /\ u.pc = "ready"
  /\ u.fn = "toMcpComparison"
  /\ u' = [pc |-> "done", fn |-> u.fn, description |-> u.description,
           beforeImage |-> u.beforeImage, afterImage |-> u.afterImage,
           metadata |-> u.metadata,
           result |-> toMcpComparison(u.description, u.beforeImage, u.afterImage,
                                      u.metadata)]
  /\ UNCHANGED <<scenario, rc, h, calls>>

Startup ==
  /\ u.pc = "ready"
  /\ u.fn = "startup"
  /\ u' = [pc |-> "done", fn |-> u.fn, variant |-> u.variant, args |-> u.args,
           env |-> u.env, result |-> startup(u.variant, u.args, u.env)]
  /\ UNCHANGED <<scenario, rc, h, calls>>

\* line 16, fn(): the wrapper invokes the handler
WrappedInvoke ==
  /\ scenario = "wrapped"
  /\ rc.pc = "loop"
  /\ rc.attempt <= rc.maxRetries
  /\ h.pc \in {"idle", "returned"}
  /\ \E tool \in Tools : \E args \in ArgsOf(tool) : h' = handlerEnter(tool, args)
  /\ UNCHANGED <<scenario, u, rc, calls>>

\* line 16, await: the promise of the handler settles, and the wrapper
\* returns its value or enters the catch block with its rejection
WrappedSettled ==
  /\ scenario = "wrapped"
  /\ rc.pc = "loop"
  /\ h.pc = "done"
  /\ rc' = IF h.outcome.kind = "return"
           THEN retryResolved(rc, h.outcome.value)
           ELSE retryRejected(rc, h.outcome.error)
  /\ h' = [h EXCEPT !.pc = "returned"]
  /\ UNCHANGED <<scenario, u, calls>>

RetryLoopExit ==
  /\ rc.pc = "loop"
  /\ ~(rc.attempt <= rc.maxRetries)
  /\ rc' = retryLoopExit(rc)
  /\ UNCHANGED <<scenario, u, h, calls>>

RetryResolved ==
  /\ scenario = "retry"
  /\ rc.pc = "loop"
  /\ rc.attempt <= rc.maxRetries
  /\ \E v \in SuccessValues : rc' = retryResolved(noteResolution(rc, v), v)
  /\ UNCHANGED <<scenario, u, h, calls>>

RetryRejected ==
  /\ scenario = "retry"
  /\ rc.pc = "loop"
  /\ rc.attempt <= rc.maxRetries
  /\ \E e \in Thrown : rc' = retryRejected(noteRejection(rc, e), e)
  /\ UNCHANGED <<scenario, u, h, calls>>

RetryWake ==
  /\ rc.pc = "sleep"
  /\ rc' = retryWake(rc)
  /\ UNCHANGED <<scenario, u, h, calls>>

HandlerParsed ==
  /\ h.pc = "parse"
  /\ h' = handlerParsed(h)
  /\ UNCHANGED <<scenario, u, rc, calls>>

\* Schema.parse throws a ZodError, an Error
HandlerParseFailed ==
  /\ h.pc = "parse"
  /\ \E e \in [kind : {"Error"}, message : Msgs] : h' = handlerCatch(noteFailure(h, e), e)
  /\ UNCHANGED <<scenario, u, rc, calls>>

HandlerLoaded ==
  /\ h.pc \in {"load", "load2"}
  /\ \E img \in LoadedImages : h' = handlerLoaded(h, img)
  /\ UNCHANGED <<scenario, u, rc, calls>>

HandlerLoadFailed ==
  /\ h.pc \in {"load", "load2"}
  /\ \E e \in Thrown : h' = handlerCatch(noteFailure(h, e), e)
  /\ UNCHANGED <<scenario, u, rc, calls>>

HandlerRemoteResolved ==
  /\ h.pc = "remote"
  /\ \E res \in RemoteResults(h.tool) : h' = handlerRemoteResolved(noteRemoteCall(h), res)
  /\ UNCHANGED <<scenario, u, rc, calls>>

HandlerRemoteRejected ==
  /\ h.pc = "remote"
  /\ \E e \in Thrown : h' = handlerCatch(noteFailure(noteRemoteCall(h), e), e)
  /\ UNCHANGED <<scenario, u, rc, calls>>

HandlerSaved ==
  /\ h.pc = "save"
  /\ h' = handlerSaved(h)
  /\ UNCHANGED <<scenario, u, rc, calls>>

HandlerSaveFailed ==
  /\ h.pc = "save"
  /\ \E e \in Thrown : h' = handlerCatch(noteFailure(h, e), e)
  /\ UNCHANGED <<scenario, u, rc, calls>>

Next ==
  \/ CallToMcpError
  \/ CallToMcpResponse
  \/ CallToMcpComparison
  \/ Startup
  \/ WrappedInvoke
  \/ WrappedSettled
  \/ HandlerParsed
  \/ HandlerParseFailed
  \/ HandlerLoaded
  \/ HandlerLoadFailed
  \/ HandlerRemoteResolved
  \/ HandlerRemoteRejected
  \/ HandlerSaved
  \/ HandlerSaveFailed
  \/ RetryLoopExit
  \/ RetryResolved
  \/ RetryRejected
  \/ RetryWake

Spec == Init /\ [][Next]_vars

(***************************************************************************)
(* One call of retryWithBackoff whose awaited promises settle: fn()        *)
(* resolves or rejects, and the timer of sleep(delay) fires.               *)
(***************************************************************************)
NextRetry ==
  \/ RetryLoopExit
  \/ RetryResolved
  \/ RetryRejected
  \/ RetryWake

SpecRetry ==
  /\ InitRetry
  /\ [][NextRetry]_vars
  /\ WF_vars(RetryResolved \/ RetryRejected)
  /\ WF_vars(RetryWake)
  /\ WF_vars(RetryLoopExit)

(***************************************************************************)
(* Concurrent calls of retryWithBackoff.  Each `await` of a call (of fn(),  *)
(* of sleep(delay)) hands control back to the event loop, so the steps of   *)
(* the calls interleave; `attempt` and `lastError` are locals of a call.    *)
(***************************************************************************)
Callers == {"a", "b"}

\* what the fn of a call can reject with
ConcurrentRejections ==
  {[kind |-> "RateLimitError", message |-> <<>>],
   [kind |-> "Error", message |-> <<RateLimitMarker>>],
   [kind |-> "Error", message |-> <<"timeout">>],
   Null}

\* a call on entry; script lists, for the properties, how its fn settled
concurrentEnter(variant, maxRetries, baseDelay) ==
  [call |-> retryEnter(variant, maxRetries, baseDelay), script |-> <<>>, overtaken |-> FALSE]

\* bookkeeping: the calls other than i that sit in sleep(delay) while i
\* takes a step
noteOvertaken(cs, i) ==
  [j \in Callers |->
     IF j # i /\ cs[j].call.pc = "sleep" THEN [cs[j] EXCEPT !.overtaken = TRUE] ELSE cs[j]]

concurrentLoopExit(cs, i) == [cs EXCEPT ![i].call = retryLoopExit(@)]

concurrentResolved(cs, i, v) ==
  [cs EXCEPT ![i].call = retryResolved(@, v), ![i].script = Append(@, Return(v))]

concurrentRejected(cs, i, e) ==
  [cs EXCEPT ![i].call = retryRejected(@, e), ![i].script = Append(@, Throw(e))]

\* the end of a sleep if `attempt` were one variable shared by the calls
concurrentWakeSharedAttempt(cs, i) ==
  [j \in Callers |->
     [cs[j] EXCEPT !.call.attempt = @ + 1,
                   !.call.pc = IF j = i THEN "loop" ELSE @]]

\* the timer of call i fires: its sleep(delay) resolves
concurrentWake(cs, i) == [cs EXCEPT ![i].call = retryWake(@)]

InitConcurrent ==
  /\ scenario = "concurrent"
  /\ calls \in [Callers -> {concurrentEnter(v, m, 1000) :
                              v \in Variants, m \in (-1)..MaxConcurrentRetries}]
  /\ u = Idle
  /\ rc = Idle
  /\ h = Idle

LoopExitOf(i) ==
  /\ calls[i].call.pc = "loop"
  /\ ~(calls[i].call.attempt <= calls[i].call.maxRetries)
  /\ calls' = concurrentLoopExit(noteOvertaken(calls, i), i)
  /\ UNCHANGED <<scenario, u, rc, h>>

ResolvedOf(i) ==
  /\ calls[i].call.pc = "loop"
  /\ calls[i].call.attempt <= calls[i].call.maxRetries
  /\ \E v \in SuccessValues : calls' = concurrentResolved(noteOvertaken(calls, i), i, v)
  /\ UNCHANGED <<scenario, u, rc, h>>

RejectedOf(i) ==
  /\ calls[i].call.pc = "loop"
  /\ calls[i].call.attempt <= calls[i].call.maxRetries
  /\ \E e \in ConcurrentRejections :
       calls' = concurrentRejected(noteOvertaken(calls, i), i, e)
  /\ UNCHANGED <<scenario, u, rc, h>>

WakeOf(i) ==
  /\ calls[i].call.pc = "sleep"
  /\ calls' = concurrentWake(noteOvertaken(calls, i), i)
  /\ UNCHANGED <<scenario, u, rc, h>>

ConcurrentLoopExit == \E i \in Callers : LoopExitOf(i)

ConcurrentResolved == \E i \in Callers : ResolvedOf(i)

ConcurrentRejected == \E i \in Callers : RejectedOf(i)

ConcurrentWake == \E i \in Callers : WakeOf(i)

NextConcurrent ==
  \/ ConcurrentLoopExit
  \/ ConcurrentResolved
  \/ ConcurrentRejected
  \/ ConcurrentWake

\* the event loop runs every continuation that is ready: a timer that was
\* set fires, and the fn of a call settles
SpecConcurrent ==
  /\ InitConcurrent
  /\ [][NextConcurrent]_vars
  /\ \A i \in Callers :
       WF_vars(LoopExitOf(i) \/ ResolvedOf(i) \/ RejectedOf(i) \/ WakeOf(i))

(***************************************************************************)
(* Properties of retryWithBackoff.                                         *)
(***************************************************************************)
RetryDone == scenario = "retry" /\ rc.pc = "done" /\ rc.maxRetries >= 0

\* C3: an operation that fails with a Retryable error exactly k times and
\* then succeeds, under maxRetries >= k, makes the wrapper return the
\* operation's value after exactly k+1 invocations and exactly k waits: the
\* wrapper gives up on Retryable failures only after more than maxRetries of
\* them, and when it returns, it returns the value of the last invocation,
\* having invoked once more than the operation failed and waited once per
\* failure.
C3_RetryableThenSuccess ==
  (RetryDone /\ rc.allRetryable) =>
    /\ rc.outcome.kind = "throw" => rc.rejected > rc.maxRetries
    /\ rc.outcome.kind = "return" =>
         /\ rc.outcome.value = rc.lastResolution
         /\ rc.invocations = rc.rejected + 1
         /\ Len(rc.waits) = rc.rejected

\* C4: an operation that always fails with a Retryable error, under
\* maxRetries = m, is invoked exactly m+1 times with exactly m waits, and the
\* wrapper then raises the error of the final attempt unchanged.
C4_AlwaysRetryable ==
  (RetryDone /\ rc.allRetryable /\ rc.outcome.kind = "throw") =>
    /\ rc.invocations = rc.maxRetries + 1
    /\ Len(rc.waits) = rc.maxRetries
    /\ rc.outcome.error = rc.lastRejection

\* C5: a Terminal failure ends the call at the attempt where it happens:
\* the wrapper raises that very error, with no wait after it and no further
\* invocation (on the first attempt: one invocation, no wait at all).
C5_TerminalEndsCall ==
  (scenario = "retry" /\ rc.maxRetries >= 0 /\ rc.rejected >= 1
     /\ Terminal(rc.lastRejection)) =>
    /\ rc.pc = "done"
    /\ rc.outcome = Throw(rc.lastRejection)
    /\ rc.invocations = rc.rejected
    /\ Len(rc.waits) = rc.rejected - 1

\* C6: every error the wrapper raises is the value with which the last
\* invocation of the operation failed.
C6_RaisesLastRejection ==
  (RetryDone /\ rc.outcome.kind = "throw") =>
    /\ rc.rejected >= 1
    /\ rc.outcome.error = rc.lastRejection

\* C7: a failure that is no RateLimitError but an error whose message holds
\* "wait longer between generations" is, while attempts remain, followed by
\* a wait and a new invocation, never raised.
C7_MessageIsRetryable ==
  (scenario = "retry" /\ rc.rejected >= 1
     /\ ~instanceofRateLimitError(rc.lastRejection)
     /\ instanceofError(rc.lastRejection)
     /\ includes(rc.lastRejection.message, RateLimitMarker)
     /\ rc.rejectedAt < rc.maxRetries) =>
    \/ rc.pc = "sleep" /\ rc.attempt = rc.rejectedAt /\ Len(rc.waits) = rc.rejected
    \/ rc.attempt > rc.rejectedAt

\* The same five statements on the definitions they hold of.
C3_OnMessageAwareDefinitions ==
  (rc.pc # "idle" /\ rc.variant # "utils_second") => C3_RetryableThenSuccess
C4_OnMessageAwareDefinitions ==
  (rc.pc # "idle" /\ rc.variant # "utils_second") => C4_AlwaysRetryable
C7_OnMessageAwareDefinitions ==
  (rc.pc # "idle" /\ rc.variant # "utils_second") => C7_MessageIsRetryable
C5_OnGuardedDefinitions ==
  (rc.pc # "idle" /\ rc.variant # "utils_first") => C5_TerminalEndsCall
C6_OnGuardedDefinitions ==
  (rc.pc # "idle" /\ rc.variant # "utils_first") => C6_RaisesLastRejection

(***************************************************************************)
(* Properties of toMcpError and of the handlers.                           *)
(***************************************************************************)
ErrorCallDone == scenario = "utils" /\ u.pc = "done" /\ u.fn = "toMcpError"

HandlerDone == scenario = "handler" /\ h.pc = "done"

HandlerFailed == scenario = "handler" /\ h.failure.step # "none"

\* C1: for every thrown value toMcpError returns (it does not throw), and
\* the response has exactly one content item, a text item whose text starts
\* with "Error: ".
C1_ErrorResponseShape ==
  ErrorCallDone =>
    /\ u.result.kind = "return"
    /\ Len(u.result.value.content) = 1
    /\ u.result.value.content[1].type = "text"
    /\ Len(u.result.value.content[1].text) >= 1
    /\ u.result.value.content[1].text[1] = "Error: "

C1_Witness ==
  /\ ErrorCallDone
  /\ u.error.kind = "object"
  /\ u.error.cyclic
  /\ u.result.kind = "return"

\* C2: a handler never throws to its caller: once a step (argument parsing,
\* image loading, the remote call, a file save) has failed with E the
\* handler is finished, and what it returned is exactly toMcpError(E).
C2_HandlerReturnsToMcpError ==
  /\ HandlerDone => h.outcome.kind = "return"
  /\ HandlerFailed => h.pc = "done" /\ h.outcome = toMcpError(h.failure.error)

C2_Witness ==
  /\ HandlerDone
  /\ h.failure.step = "save"
  /\ h.tool \in AnimationTools
  /\ Len(h.files) >= 1
  /\ h.outcome = toMcpError(h.failure.error)

\* C8 as stated: a handler returns an error response for a Retryable failure
\* of its remote call only after the call was retried (so, with any bound of
\* one retry or more, after the call was issued at least twice).
C8_RetriedBeforeError ==
  (HandlerDone /\ h.failure.step = "remote" /\ Retryable(h.failure.error)) =>
    Len(h.remoteCalls) >= 2

\* C8 amended: a Retryable failure of the remote call is not retried by the
\* handler: the call was issued exactly once, the handler is finished and
\* what it returned is the error response toMcpError makes of that failure.
C8_NoLocalRetry ==
  (HandlerFailed /\ h.failure.step = "remote" /\ Retryable(h.failure.error)) =>
    /\ h.pc = "done"
    /\ h.remoteCalls = <<clientMethod(h.tool)>>
    /\ h.outcome = toMcpError(h.failure.error)
    /\ IsErrorFlag(h.outcome.value)

C8_Witness ==
  /\ HandlerDone
  /\ h.failure.step = "remote"
  /\ instanceofRateLimitError(h.failure.error)
  /\ Len(h.remoteCalls) = 1

\* C9: the response a handler returns carries isError = true exactly when
\* the invocation failed; every response toMcpError builds carries it.
C9_IsErrorIffFailed ==
  /\ HandlerDone =>
       /\ h.outcome.kind = "return"
       /\ IsErrorFlag(h.outcome.value) <=> h.failure.step # "none"
  /\ ErrorCallDone => u.result.kind = "return" /\ IsErrorFlag(u.result.value)

C9_Witness ==
  /\ HandlerDone
  /\ h.failure.step = "remote"
  /\ IsErrorFlag(h.outcome.value)

\* the message field of a value that carries one as a string
HasStringMessage(e) ==
  \/ instanceofError(e)
  \/ e.kind = "object" /\ LookupProp(e.props, "message").kind = "string"

StringMessage(e) ==
  IF instanceofError(e) THEN e.message ELSE LookupProp(e.props, "message").value

\* C10 as stated: for every thrown value that carries a message field, an
\* Error instance or any other object, the text is "Error: " followed by
\* that message.
C10_MessageFieldVerbatim ==
  (ErrorCallDone /\ HasStringMessage(u.error)) =>
    /\ u.result.kind = "return"
    /\ u.result.value.content[1].text = <<"Error: ">> \o StringMessage(u.error)

\* C10 amended: for every thrown value that is an Error instance the text is
\* "Error: " followed by its message; an object that carries a message field
\* without being an Error instance is rendered as JSON (or by the fallback
\* when it cannot be serialized), not by its message.
C10_ErrorInstanceMessageVerbatim ==
  ErrorCallDone =>
    /\ instanceofError(u.error) =>
         /\ u.result.kind = "return"
         /\ u.result.value.content[1].text = <<"Error: ">> \o u.error.message
    /\ (HasStringMessage(u.error) /\ ~instanceofError(u.error)) =>
         /\ u.result.kind = "return"
         /\ u.result.value.content[1].text[2] \in {"{", "Object error: "}

C10_Witness ==
  /\ ErrorCallDone
  /\ instanceofError(u.error)
  /\ u.error.message # <<>>
  /\ u.result.kind = "return"

\* a value that carries no message field at all
NoMessageField(e) ==
  \/ e.kind \in {"string", "null", "undefined", "number", "boolean"}
  \/ e.kind = "object" /\ LookupProp(e.props, "message") = Undefined

\* the text of the only item of the response toMcpError returned
ErrorText == u.result.value.content[1].text

\* C11: for a thrown value without a message field toMcpError returns, and
\* its text is: for a string, "Error: " and the string; for a plain object
\* that can be serialized, "Error: " and its JSON, an opening brace, every
\* property on a line of its own indented by two spaces, a closing brace
\* ("{}" when it has none); for a cyclic object the fixed text
\* "Error: Object error: [object Object]"; for null, undefined, a number or
\* a boolean, "Error: Unknown error: " and String(value).
C11_TextWithoutMessageField ==
  (ErrorCallDone /\ NoMessageField(u.error)) =>
    /\ u.result.kind = "return"
    /\ u.error.kind = "string" => ErrorText = <<"Error: ">> \o u.error.value
    /\ (u.error.kind = "object" /\ u.error.cyclic) =>
         ErrorText = <<"Error: ", "Object error: ", "[object Object]">>
    /\ (u.error.kind = "object" /\ ~u.error.cyclic) =>
         /\ ErrorText = <<"Error: ">> \o JSONstringify(u.error).value
         /\ u.error.props = <<>> => ErrorText = <<"Error: ", "{}">>
         /\ u.error.props # <<>> =>
              /\ ErrorText[2] = "{"
              /\ ErrorText[Len(ErrorText)] = "}"
              /\ \A p \in DOMAIN u.error.props :
                   \E k \in 1..(Len(ErrorText) - 3) :
                     /\ ErrorText[k] = "\n  "
                     /\ ErrorText[k + 2] = u.error.props[p].key
    /\ u.error.kind \in {"null", "undefined", "number", "boolean"} =>
         /\ ErrorText = <<"Error: ", "Unknown error: ">> \o String(u.error)
         /\ u.error = Null => ErrorText[3] = "null"
         /\ u.error = Undefined => ErrorText[3] = "undefined"

C11_Witness ==
  /\ ErrorCallDone
  /\ u.error = Null
  /\ ErrorText = <<"Error: ", "Unknown error: ", "null">>

(***************************************************************************)
(* Properties of toMcpResponse and toMcpComparison.                        *)
(***************************************************************************)
ResponseCallDone == scenario = "utils" /\ u.pc = "done" /\ u.fn = "toMcpResponse"

ComparisonCallDone == scenario = "utils" /\ u.pc = "done" /\ u.fn = "toMcpComparison"

\* an argument that was passed
Supplied(v) == v # Undefined

\* metadata that JSON.stringify can render
Serializable(v) == v.kind = "object" => ~v.cyclic

\* the image item the claims expect for an image
PngItemOf(image) ==
  [type |-> "image", data |-> [of |-> image, as |-> "dataUrl"], mimeType |-> "image/png"]

\* the trailing item the claims expect for metadata that was passed
MetadataItemOf(metadata) ==
  IF Supplied(metadata) THEN <<TextItem(JSONstringify(metadata).value)>> ELSE <<>>

\* C12: toMcpResponse called with a summary alone returns exactly one item,
\* the summary text; an image that was passed adds exactly one image item of
\* mimeType "image/png" directly after the summary; metadata that was passed
\* adds exactly one trailing text item, its JSON.
C12_ItemsFollowSuppliedInputs ==
  (ResponseCallDone /\ (Supplied(u.metadata) => Serializable(u.metadata))) =>
    /\ u.result.kind = "return"
    /\ u.result.value.content =
         <<TextItem(u.description)>>
         \o (IF Supplied(u.image) THEN <<PngItemOf(u.image)>> ELSE <<>>)
         \o MetadataItemOf(u.metadata)

\* what holds of toMcpResponse: with an image and with metadata that is
\* truthy (or with none) the content is as C12 says
C12_WithImageAndTruthyMetadata ==
  (ResponseCallDone /\ Supplied(u.image) /\ (Truthy(u.metadata) \/ ~Supplied(u.metadata))) =>
    C12_ItemsFollowSuppliedInputs

\* C13: the trailing metadata text item of toMcpResponse and of
\* toMcpComparison is there exactly when a metadata argument was passed,
\* whatever its value (an object, an empty object, 0, false, the empty
\* string); the items come in one fixed order, a function of the arguments
\* alone.
C13_MetadataItemIffSupplied ==
  /\ (ResponseCallDone /\ Supplied(u.image) /\ Serializable(u.metadata)) =>
       /\ u.result.kind = "return"
       /\ u.result.value.content =
            <<TextItem(u.description), PngItemOf(u.image)>> \o MetadataItemOf(u.metadata)
  /\ (ComparisonCallDone /\ Supplied(u.beforeImage) /\ Supplied(u.afterImage)
        /\ Serializable(u.metadata)) =>
       /\ u.result.kind = "return"
       /\ u.result.value.content =
            <<TextItem(u.description), TextItem(<<"Before:">>), PngItemOf(u.beforeImage),
              TextItem(<<"After:">>), PngItemOf(u.afterImage)>>
            \o MetadataItemOf(u.metadata)

\* what holds of both functions: the item is there exactly when the
\* metadata argument is truthy
C13_MetadataItemIffTruthy ==
  ((ResponseCallDone \/ ComparisonCallDone) /\ u.result.kind = "return") =>
    LET content == u.result.value.content
        fixed == IF u.fn = "toMcpResponse" THEN 2 ELSE 5
    IN Len(content) = fixed + (IF Truthy(u.metadata) THEN 1 ELSE 0)

\* C14: toMcpComparison returns exactly 5 items when no metadata was passed
\* and exactly 6 when metadata was passed, in the order summary text,
\* "Before:", the before image, "After:", the after image, the JSON of the
\* metadata; the before image is the third item and the after image the
\* fifth, never the other way round.
C14_ComparisonItems ==
  (ComparisonCallDone /\ Supplied(u.beforeImage) /\ Supplied(u.afterImage)
     /\ Serializable(u.metadata)) =>
    /\ u.result.kind = "return"
    /\ LET content == u.result.value.content
       IN /\ Len(content) = IF Supplied(u.metadata) THEN 6 ELSE 5
          /\ content[1] = TextItem(u.description)
          /\ content[2] = TextItem(<<"Before:">>)
          /\ content[3].type = "image" /\ content[3].data.of = u.beforeImage
          /\ content[4] = TextItem(<<"After:">>)
          /\ content[5].type = "image" /\ content[5].data.of = u.afterImage
          /\ Len(content) = 6 => content[6] = TextItem(JSONstringify(u.metadata).value)

\* what holds of toMcpComparison: C14 for metadata that is truthy or absent
C14_OnTruthyMetadata ==
  (ComparisonCallDone /\ (Truthy(u.metadata) \/ ~Supplied(u.metadata))) => C14_ComparisonItems

(***************************************************************************)
(* Properties of the handlers' responses.                                  *)
(***************************************************************************)
HandlerSucceeded == HandlerDone /\ h.failure.step = "none"

Content == h.outcome.value.content

\* how the summary of a successful call of each tool begins
SummaryHead(tool) ==
  CASE tool = "generatePixelArt" -> "Generated pixel art: "
    [] tool = "generatePixelArtWithStyle" -> "Generated pixel art with style: "
    [] tool = "rotateCharacter" -> "Rotated character from "
    [] tool = "inpaintPixelArt" -> "Inpainted pixel art: "
    [] tool = "estimateSkeleton" -> "Estimated skeleton with "
    [] tool = "getBalance" -> "PixelLab Balance: $"
    [] tool \in AnimationTools -> "Animated pixel art sequence with "

\* C15: every response a handler returns, after a success or a failure, has
\* a content list that is not empty and whose first item is a text item
\* with a text that is not empty; after a success that text is the summary
\* of the operation (for an animation that produced no frame, the sentence
\* that says so).
C15_FirstItemIsText ==
  HandlerDone =>
    /\ h.outcome.kind = "return"
    /\ Len(Content) >= 1
    /\ Content[1].type = "text"
    /\ Content[1].text # <<>>
    /\ HandlerSucceeded =>
         IF h.tool \in AnimationTools /\ Len(h.result.images) = 0
         THEN Content[1].text = <<"No animated frames were generated.">>
         ELSE Content[1].text[1] = SummaryHead(h.tool)

C15_Witness ==
  /\ HandlerSucceeded
  /\ h.tool \in AnimationTools
  /\ Len(h.result.images) = 0
  /\ Content = <<TextItem(<<"No animated frames were generated.">>)>>

\* a successful rotateCharacter call from "south" to "east"
RotatedSouthToEast ==
  /\ HandlerSucceeded
  /\ h.tool = "rotateCharacter"
  /\ h.args.from_direction = "south"
  /\ h.args.to_direction = "east"

\* the six items of a comparison of the original and the rotated image
IsComparison(content) ==
  /\ Len(content) = 6
  /\ content[1].type = "text"
  /\ content[2] = TextItem(<<"Before:">>)
  /\ content[3].type = "image" /\ content[3].data.of = h.original
  /\ content[4] = TextItem(<<"After:">>)
  /\ content[5].type = "image" /\ content[5].data.of = h.result.image
  /\ content[6] = TextItem(JSONstringify(metadataOf(h)).value)

NamesBothDirections(text) == includes(text, "south") /\ includes(text, "east")

\* C16 as stated: a successful rotateCharacter call from "south" to "east"
\* returns a comparison (summary, "Before:", the original image, "After:",
\* the rotated image, metadata) whether show_image is true or false, and the
\* summary names both directions.
C16_ComparisonForEitherShowImage ==
  RotatedSouthToEast =>
    /\ IsComparison(Content)
    /\ NamesBothDirections(Content[1].text)

\* C16 amended: the summary names both directions for either value of
\* show_image, but the comparison is returned only when show_image is true;
\* when it is false the response is three text items (summary, cost,
\* metadata) and holds no image.
C16_ComparisonWhenShowImage ==
  RotatedSouthToEast =>
    /\ NamesBothDirections(Content[1].text)
    /\ h.args.show_image => IsComparison(Content)
    /\ ~h.args.show_image =>
         /\ Len(Content) = 3
         /\ \A k \in 1..3 : Content[k].type = "text"
         /\ Content[2].text = <<"Cost: $", h.result.usd, " USD">>
         /\ Content[3] = TextItem(JSONstringify(metadataOf(h)).value)

C16_Witness ==
  /\ RotatedSouthToEast
  /\ h.args.show_image
  /\ Len(Content) = 6
  /\ Content[3].data.of = h.original
  /\ Content[3].data.of # Content[5].data.of

\* the file name of a path starts after its last "/"
FileNameStart(path) ==
  LET slashes == {q \in DOMAIN path : path[q] = "/"}
  IN IF slashes = {} THEN 1 ELSE 1 + CHOOSE q \in slashes : \A r \in slashes : r <= q

\* where the extension of the file name starts: at its last ".", or past
\* the end when the file name has no extension
ExtensionStart(path) ==
  LET dots == {q \in FileNameStart(path)..(Len(path) - 1) : path[q] = "."}
  IN IF dots = {} THEN Len(path) + 1 ELSE CHOOSE q \in dots : \A r \in dots : r <= q

\* the path C17 expects for frame i
ExpectedFramePath(path, i) ==
  LET e == ExtensionStart(path)
  IN SubSeq(path, 1, e - 1) \o <<"_frame", ToString(i)>> \o SubSeq(path, e, Len(path))

\* C17: the k-th file an animation handler writes (frame k-1) goes to the
\* path made from save_to_file by inserting "_frame<k-1>" right before the
\* extension of the file name, at the very end when the file name has none;
\* the directory components (everything up to the last "/") are those of
\* save_to_file, and no two frames share a path.
C17_FramePaths ==
  (scenario = "handler" /\ h.tool \in AnimationTools) =>
    /\ \A k \in DOMAIN h.files :
         /\ h.files[k].path = ExpectedFramePath(h.args.save_to_file, k - 1)
         /\ SubSeq(h.files[k].path, 1, FileNameStart(h.args.save_to_file) - 1)
              = SubSeq(h.args.save_to_file, 1, FileNameStart(h.args.save_to_file) - 1)
    /\ \A k, l \in DOMAIN h.files : k # l => h.files[k].path # h.files[l].path

\* what holds: C17 for every path with no "." in a directory component
C17_OnPlainDirectories ==
  (scenario = "handler" /\ h.tool \in AnimationTools
     /\ \A q \in 1..(FileNameStart(h.args.save_to_file) - 1) : h.args.save_to_file[q] # ".") =>
    C17_FramePaths

\* the positions of the image items of a content list
ImageItems(content) == {k \in DOMAIN content : content[k].type = "image"}

\* a successful call with show_image that has an image to show
ShowsImages ==
  /\ HandlerSucceeded
  /\ h.args.show_image
  /\ h.tool \in AnimationTools => Len(h.result.images) >= 1

\* C18: the response of a handler holds image items exactly when show_image
\* is true and the invocation succeeded (for an animation: with at least one
\* frame); otherwise, show_image false or any failure, all its items are
\* text items. With show_image true the response of an animation is the
\* summary followed by exactly one image item per frame, in frame order.
C18_ImagesIffShowImage ==
  HandlerDone =>
    /\ h.outcome.kind = "return"
    /\ ImageItems(Content) # {} <=> ShowsImages
    /\ ~ShowsImages => \A k \in DOMAIN Content : Content[k].type = "text"
    /\ (ShowsImages /\ h.tool \in AnimationTools) =>
         /\ Len(Content) = 1 + Len(h.result.images)
         /\ Content[1].type = "text"
         /\ \A k \in DOMAIN h.result.images :
              /\ Content[k + 1].type = "image"
              /\ Content[k + 1].data.of = h.result.images[k]

C18_Witness ==
  /\ ShowsImages
  /\ h.tool \in AnimationTools
  /\ Len(h.result.images) = 2
  /\ ImageItems(Content) = {2, 3}
  /\ Content[2].data.of = h.result.images[1]
  /\ Content[3].data.of = h.result.images[2]

\* the mime type of an encoding
MimeTypeOf(format) == IF format = "png" THEN "image/png" ELSE "image/jpeg"

\* C19: every image item of a response a handler returns declares the mime
\* type of the encoding of the image it carries, the image read from the
\* caller's path by rotateCharacter, inpaintPixelArt or estimateSkeleton
\* included.
C19_MimeTypeMatchesEncoding ==
  (HandlerDone /\ h.outcome.kind = "return") =>
    \A k \in ImageItems(Content) :
      Content[k].mimeType = MimeTypeOf(Content[k].data.of.format)

\* what holds: the declared type is right for every image the API returned
C19_OnGeneratedImages ==
  (HandlerDone /\ h.outcome.kind = "return") =>
    \A k \in ImageItems(Content) :
      Content[k].data.of \notin LoadedImages =>
        Content[k].mimeType = MimeTypeOf(Content[k].data.of.format)

(***************************************************************************)
(* Properties of concurrent calls of retryWithBackoff.                     *)
(***************************************************************************)
\* a call run to its end on its own: fn settles as the script says
RECURSIVE replay(_, _)
replay(c, script) ==
  IF c.pc = "sleep" THEN replay(retryWake(c), script)
  ELSE IF c.pc = "loop" /\ ~(c.attempt <= c.maxRetries) THEN retryLoopExit(c)
  ELSE IF c.pc = "done" \/ script = <<>> THEN c
  ELSE replay(IF Head(script).kind = "return"
              THEN retryResolved(c, Head(script).value)
              ELSE retryRejected(c, Head(script).error),
              Tail(script))

runAlone(c, script) == replay(retryEnter(c.variant, c.maxRetries, c.baseDelay), script)

ConcurrentDone(i) == scenario = "concurrent" /\ calls[i].call.pc = "done"

SameAsAlone(i) ==
  LET alone == runAlone(calls[i].call, calls[i].script)
  IN /\ alone.pc = "done"
     /\ calls[i].call.invocations = alone.invocations
     /\ calls[i].call.waits = alone.waits
     /\ calls[i].call.outcome = alone.outcome

\* C20: under every interleaving of the steps of concurrent calls, a call
\* that has finished made the invocations and the waits and has the outcome
\* it would have had alone with an fn that settles the same way; a step
\* changes the state of one call only; and every call finishes, whatever
\* the other calls do and however long they wait.
C20_CallsAreIndependent ==
  /\ [](\A i \in Callers : ConcurrentDone(i) => SameAsAlone(i))
  /\ [][\A i, j \in Callers :
          (calls'[i].call # calls[i].call /\ calls'[j].call # calls[j].call) => i = j]_vars
  /\ \A i \in Callers : <>(calls[i].call.pc = "done")

C20_Witness ==
  /\ \A i \in Callers : ConcurrentDone(i) /\ SameAsAlone(i)
  /\ \A i \in Callers : calls[i].overtaken /\ Len(calls[i].call.waits) >= 1
  /\ calls["a"].call.outcome.kind # calls["b"].call.outcome.kind

(***************************************************************************)
(* Properties of the order of a handler's steps.                           *)
(***************************************************************************)
\* the images a successful call with save_to_file has to have on disk
ImagesToSave ==
  IF h.tool \in AnimationTools THEN h.result.images ELSE <<h.result.image>>

\* C21: when a handler that was given save_to_file returns a success
\* response, the remote call has resolved and every write is over: the image
\* (for an animation every frame, in order) is in the files written.
C21_SavedBeforeReturn ==
  (HandlerSucceeded /\ h.args.save_to_file # NoPath) =>
    /\ h.result # NoResult
    /\ Len(h.remoteCalls) = 1
    /\ Len(h.files) = Len(ImagesToSave)
    /\ \A k \in DOMAIN h.files : h.files[k].image = ImagesToSave[k]
    /\ h.tool \notin AnimationTools => h.files[1].path = h.args.save_to_file

C21_Witness ==
  /\ HandlerSucceeded
  /\ h.tool \in AnimationTools
  /\ h.args.save_to_file # NoPath
  /\ Len(h.result.images) = 2
  /\ Len(h.files) = 2

(***************************************************************************)
(* Properties of the backoff delays.                                       *)
(***************************************************************************)
\* growth factors between 1.5 and 2, as fractions
GrowthFactors == {[num |-> 3, den |-> 2], [num |-> 7, den |-> 4], [num |-> 2, den |-> 1]}

\* the delay w is baseDelay * g^n
IsGeometric(w, baseDelay, g, n) ==
  w.num * Pow(g.den, n) = baseDelay * Pow(g.num, n) * w.den

\* the delay w is longer than the delay v
Longer(w, v) == w.num * v.den > v.num * w.den

\* the waits of the call grow by one fixed factor between 1.5 and 2, each
\* strictly longer than the one before
DelaysGrow ==
  /\ \E g \in GrowthFactors :
       \A k \in DOMAIN rc.waits : IsGeometric(rc.waits[k], rc.baseDelay, g, k - 1)
  /\ \A k \in DOMAIN rc.waits : k > 1 => Longer(rc.waits[k], rc.waits[k - 1])

\* C22: in a call with baseDelay > 0 the wait after failed attempt n is
\* baseDelay * g^n for one factor g between 1.5 and 2, so each wait is
\* strictly longer than the one before; and a call whose every attempt
\* fails with a Retryable error ends after maxRetries + 1 attempts.
C22_ExponentialBackoff ==
  (scenario = "retry" /\ rc.baseDelay > 0 /\ rc.maxRetries >= 0) =>
    /\ DelaysGrow
    /\ (rc.pc = "done" /\ rc.allRetryable /\ rc.outcome.kind = "throw") =>
         rc.invocations = rc.maxRetries + 1

\* what holds of all three definitions: the delays
C22_DelaysOnEveryDefinition ==
  (scenario = "retry" /\ rc.baseDelay > 0) => DelaysGrow

\* what holds of the two definitions that look at the message: all of C22
C22_OnMessageAwareDefinitions ==
  (rc.pc # "idle" /\ rc.variant # "utils_second") => C22_ExponentialBackoff

(***************************************************************************)
(* Properties of the startup.                                              *)
(***************************************************************************)
StartupDone == scenario = "startup" /\ u.pc = "done"

\* the value of the last argument with the flag, Undefined when there is
\* none
RECURSIVE LastArg(_, _)
LastArg(args, flag) ==
  IF args = <<>> THEN Undefined
  ELSE IF args[Len(args)].flag = flag THEN Str(args[Len(args)].value)
  ELSE LastArg(SubSeq(args, 1, Len(args) - 1), flag)

\* argument over environment over default
Resolved(arg, env, default) ==
  IF arg # Undefined THEN arg ELSE IF env # Undefined THEN env ELSE default

AsksForHelp(args) == \E k \in DOMAIN args : args[k].flag = "--help"

\* C23: the secret and the base URL the client is made with are each the
\* value of the command-line argument when it is given, else the value of
\* the environment variable (PIXELLAB_SECRET, PIXELLAB_BASE_URL) when it is
\* set, else the default (none for the secret, which ends the process;
\* https://api.pixellab.ai/v1 for the base URL).
C23_ArgOverEnvOverDefault ==
  (StartupDone /\ ~AsksForHelp(u.args)) =>
    LET secret == Resolved(LastArg(u.args, "--secret"), u.env.PIXELLAB_SECRET, Undefined)
        baseUrl == Resolved(LastArg(u.args, "--base-url"), u.env.PIXELLAB_BASE_URL,
                            Str(DefaultBaseUrl))
    IN IF secret = Undefined THEN u.result = Exit(1)
       ELSE u.result = Client(secret, baseUrl)

\* what holds: C23 of the server of part_007, for argument values without
\* an "="
C23_OnPart007 ==
  (StartupDone /\ u.variant = "part_007"
     /\ \A k \in DOMAIN u.args : u.args[k].flag # "--help" => u.args[k].value = <<"cli">>) =>
    C23_ArgOverEnvOverDefault

(***************************************************************************)
(* Properties of the saved-file report.                                    *)
(***************************************************************************)
\* the text holds the path, fragment by fragment
ContainsPath(text, path) ==
  \E k \in 1..(Len(text) - Len(path) + 1) : SubSeq(text, k, k + Len(path) - 1) = path

\* C24: after a successful generatePixelArt call with save_to_file, the
\* first text item of the response says "Saved to" and holds the path.
C24_SummaryReportsSave ==
  (HandlerSucceeded /\ h.tool = "generatePixelArt" /\ h.args.save_to_file # NoPath) =>
    /\ Content[1].type = "text"
    /\ includes(Content[1].text, "Saved to")
    /\ ContainsPath(Content[1].text, h.args.save_to_file)

\* what holds: the path is reported in the metadata, the last item
C24_MetadataReportsSave ==
  (HandlerSucceeded /\ h.tool = "generatePixelArt" /\ h.args.save_to_file # NoPath) =>
    /\ Content[1].text[1] = "Generated pixel art: "
    /\ Content[Len(Content)].type = "text"
    /\ ContainsPath(Content[Len(Content)].text, h.args.save_to_file)

(***************************************************************************)
(* Termination of retryWithBackoff.                                        *)
(***************************************************************************)
\* C25: when every invocation of fn settles, a call with maxRetries >= 0
\* ends, by returning or by raising; it has then invoked fn at least once,
\* and it never invokes fn more than maxRetries + 1 times, whatever the
\* failures; with maxRetries = 0 it never waits and has invoked fn exactly
\* once when it ends.
C25_Terminates ==
  /\ [](rc.maxRetries >= 0 =>
         /\ rc.invocations <= rc.maxRetries + 1
         /\ rc.pc = "done" => rc.invocations >= 1 /\ rc.outcome.kind \in {"return", "throw"}
         /\ rc.maxRetries = 0 =>
              /\ rc.waits = <<>>
              /\ rc.pc # "sleep"
              /\ rc.pc = "done" => rc.invocations = 1)
  /\ <>(rc.pc = "done")

C25_Witness ==
  /\ RetryDone
  /\ rc.maxRetries = 0
  /\ rc.invocations = 1
  /\ rc.waits = <<>>
  /\ rc.outcome.kind = "throw"
  /\ Retryable(rc.lastRejection)

\* the input images a tool loads before its remote call
InputsLoaded ==
  /\ h.tool \in {"generatePixelArtWithStyle", "rotateCharacter", "inpaintPixelArt",
                  "estimateSkeleton"} => h.original # NoImage
  /\ h.tool = "inpaintPixelArt" => h.mask # NoImage
  /\ (h.tool \in AnimationTools /\ h.args.reference_image_path) => h.original # NoImage

\* C26: the steps of a handler run in the order load, remote call, save,
\* response, each only after the one before succeeded: the remote call is
\* issued only with the inputs loaded and never after a failed load (or
\* parse); a file is written only after the remote call resolved and never
\* after it failed; a response that is no error response is returned only
\* when no step failed; a failed save, after a successful remote call, ends
\* in an error response.
C26_StepsInOrder ==
  scenario = "handler" =>
    /\ h.remoteCalls # <<>> => InputsLoaded
    /\ h.failure.step \in {"parse", "load", "load2"} => h.remoteCalls = <<>> /\ h.files = <<>>
    /\ h.files # <<>> => Len(h.remoteCalls) = 1 /\ h.result # NoResult
    /\ h.failure.step = "remote" => h.files = <<>> /\ h.result = NoResult
    /\ h.pc = "done" =>
         /\ h.outcome.kind = "return"
         /\ ~IsErrorFlag(h.outcome.value) =>
              /\ h.failure.step = "none"
              /\ Len(h.remoteCalls) = 1
              /\ InputsLoaded
    /\ h.failure.step = "save" =>
         /\ h.pc = "done"
         /\ Len(h.remoteCalls) = 1 /\ h.result # NoResult
         /\ IsErrorFlag(h.outcome.value)

C26_Witness ==
  /\ HandlerDone
  /\ h.tool \in SingleImageTools
  /\ h.failure.step = "save"
  /\ Len(h.remoteCalls) = 1
  /\ h.files = <<>>
  /\ IsErrorFlag(h.outcome.value)

(***************************************************************************)
(* Properties of a handler called through retryWithBackoff.                *)
(***************************************************************************)
WrappedDone == scenario = "wrapped" /\ rc.pc = "done"

\* C27: when the operation given to retryWithBackoff is a tool handler, the
\* handler is invoked exactly once and the wrapper never waits, whatever the
\* remote call does: the wrapper returns the handler's response as its
\* value, and after a rate-limited remote call that response is the error
\* response made of the failure.
C27_WrappedHandlerRunsOnce ==
  scenario = "wrapped" =>
    /\ rc.waits = <<>>
    /\ rc.pc # "sleep"
    /\ rc.invocations <= 1
    /\ rc.pc = "done" =>
         /\ rc.invocations = 1
         /\ h.pc = "returned"
         /\ h.outcome.kind = "return"
         /\ rc.outcome = Return(h.outcome.value)
         /\ (h.failure.step = "remote" /\ Retryable(h.failure.error)) =>
              /\ IsErrorFlag(rc.outcome.value)
              /\ rc.outcome.value = toMcpError(h.failure.error).value

C27_Witness ==
  /\ WrappedDone
  /\ h.failure.step = "remote"
  /\ instanceofRateLimitError(h.failure.error)
  /\ rc.invocations = 1
  /\ rc.outcome.kind = "return"
  /\ IsErrorFlag(rc.outcome.value)

(***************************************************************************)
(* Properties of the animation handlers.                                   *)
(***************************************************************************)
AnimationCall == scenario = "handler" /\ h.tool \in AnimationTools

\* C28: an animation handler given save_to_file writes the frames one at a
\* time in increasing index order (the k-th file written holds frame k-1);
\* when the write of frame i fails, the handler ends with an error response,
\* the files of frames 0..i-1 are there and stay there, and no later frame
\* is written; a step never removes a file.
C28_FramesInOrderNoRollback ==
  /\ [](AnimationCall =>
         /\ \A k \in DOMAIN h.files :
              /\ h.files[k].image = h.result.images[k]
              /\ h.files[k].path = frameFileName(h.args.save_to_file, k - 1)
         /\ h.failure.step = "save" =>
              /\ h.pc = "done"
              /\ h.outcome.kind = "return" /\ IsErrorFlag(h.outcome.value)
              /\ Len(h.files) = h.i
              /\ Len(h.files) < Len(h.result.images))
  /\ [][AnimationCall =>
          /\ Len(h'.files) >= Len(h.files)
          /\ Len(h'.files) <= Len(h.files) + 1
          /\ SubSeq(h'.files, 1, Len(h.files)) = h.files]_vars

C28_Witness ==
  /\ AnimationCall
  /\ h.pc = "done"
  /\ h.failure.step = "save"
  /\ h.i = 1
  /\ Len(h.files) = 1
  /\ Len(h.result.images) = 2
  /\ IsErrorFlag(h.outcome.value)

(***************************************************************************)
(* Properties of the remote calls of a handler.                            *)
(***************************************************************************)
\* C29: one invocation of a handler issues at most two remote calls (each
\* of them the client method of the tool); once a step has failed it issues
\* none; and once it holds a result it does not issue the call again.
C29_RemoteCallsBounded ==
  /\ [](scenario = "handler" =>
         /\ Len(h.remoteCalls) <= 2
         /\ \A k \in DOMAIN h.remoteCalls : h.remoteCalls[k] = clientMethod(h.tool)
         /\ h.failure.step \in {"parse", "load", "load2"} => h.remoteCalls = <<>>)
  /\ [][(scenario = "handler" /\ (h.failure.step # "none" \/ h.result # NoResult)) =>
          h'.remoteCalls = h.remoteCalls]_vars

C29_Witness ==
  /\ HandlerDone
  /\ h.tool = "inpaintPixelArt"
  /\ h.failure.step = "load2"
  /\ h.original # NoImage
  /\ h.remoteCalls = <<>>

\* C30: when the remote call of an animation handler resolves with no
\* image, the handler writes no file, even with save_to_file, and returns
\* exactly one item, the text "No animated frames were generated.", with no
\* image item, even with show_image, and without the error mark.
C30_ZeroFrames ==
  (AnimationCall /\ h.result # NoResult /\ Len(h.result.images) = 0) =>
    /\ h.files = <<>>
    /\ h.pc = "done"
    /\ h.failure.step = "none"
    /\ h.outcome.kind = "return"
    /\ Content = <<[type |-> "text", text |-> <<"No animated frames were generated.">>]>>
    /\ ~IsErrorFlag(h.outcome.value)

C30_Witness ==
  /\ AnimationCall
  /\ h.pc = "done"
  /\ h.result # NoResult
  /\ Len(h.result.images) = 0
  /\ h.args.save_to_file # NoPath
  /\ h.args.show_image
  /\ h.files = <<>>
  /\ Len(Content) = 1

====
